---- MODULE Spec2Model ----
(***************************************************************************)
(* Model of main.py: one run of main() fetches the unit listing, loads the *)
(* snapshot file, computes the changed-set, notifies and saves.            *)
(*                                                                         *)
(* Representation.  A Python str that the code only stores and compares is *)
(* a TLA+ string.  A unit name, which the code matches against             *)
(* UNIT_PATTERN, is a sequence of one-character strings; "LF" stands for   *)
(* the line feed character U+000A.  A dict is a function; {} is EmptyMap.  *)
(* A JSON object of the response is a record plus the set `has` of the     *)
(* keys that are present in it.                                            *)
(***************************************************************************)
EXTENDS Integers, Sequences, FiniteSets, TLC

\* file: the state of DATA_FILE ("last_statuses.json"), the only state that
\*       outlives a run.
\* run:  the last run of main(): its inputs, its locals and the calls it made.
\* gone: the units that completed runs reported as no longer listed (history).
VARIABLES file, run, gone

vars == <<file, run, gone>>

\* Prices in responses and snapshots are 1..MaxPrice.
MaxPrice == 2
\* Longest "units" list in the responses given to get_unit_statuses alone.
MaxUnits == 2

---------------------------------------------------------------------------
(* Values *)

EmptyMap == <<>>

Digits == {"0", "1", "2", "3", "4", "5", "6", "7", "8", "9"}

Fields ==
  {"name", "price", "beds", "baths", "sqft", "availableDate", "amenities", "applyUrl"}

\* dict[key] = value
Put(m, k, v) == [x \in DOMAIN m \cup {k} |-> IF x = k THEN v ELSE m[x]]

\* unit.get(key, default)
get(unit, key, default) == IF key \in unit.has THEN unit[key] ELSE default

---------------------------------------------------------------------------
(* UNIT_PATTERN = re.compile(r'^\d+$'), used through .match() *)

RECURSIVE DigitsEnd(_, _)
\* \d+ is greedy: the position after the longest run of digits starting at i.
DigitsEnd(s, i) ==
  IF i <= Len(s) /\ s[i] \in Digits THEN DigitsEnd(s, i + 1) ELSE i

\* $ (no re.MULTILINE): at the end of the string, or just before a line feed
\* that is the last character of the string.
DollarAt(s, pos) ==
  \/ pos = Len(s) + 1
  \/ pos = Len(s) /\ s[pos] = "LF"

UNIT_PATTERN_match(s) ==
  LET e == DigitsEnd(s, 1) IN e > 1 /\ DollarAt(s, e)

---------------------------------------------------------------------------
(* get_unit_statuses *)

\* f"Available {availableDate} - ${price}": the pieces of the formatted string.
status_string(status_info) ==
  <<"Available ", status_info.availableDate, " - $", status_info.price>>

status_info_of(unit) ==
  [name          |-> get(unit, "name", <<>>),
   price         |-> get(unit, "price", 0),
   beds          |-> get(unit, "beds", 0),
   baths         |-> get(unit, "baths", 0),
   sqft          |-> get(unit, "sqft", 0),
   availableDate |-> get(unit, "availableDate", ""),
   amenities     |-> get(unit, "amenities", ""),
   applyUrl      |-> get(unit, "applyUrl", "")]

unit_entry(unit) ==
  [status |-> status_string(status_info_of(unit)), details |-> status_info_of(unit)]

RECURSIVE units_loop(_, _)
units_loop(units, results) ==
  IF units = <<>> THEN results
  ELSE LET unit == Head(units)
           unit_name == get(unit, "name", <<>>)
       IN units_loop(Tail(units),
                     IF UNIT_PATTERN_match(unit_name)
                     THEN Put(results, unit_name, unit_entry(unit))
                     ELSE results)

\* Response.raise_for_status() raises HTTPError for 4xx and 5xx only.
raise_for_status(status_code) == 400 <= status_code /\ status_code < 600

Returned(v) == [raised |-> "", value |-> v]
Raised(e) == [raised |-> e, value |-> EmptyMap]

get_unit_statuses(response) ==
  IF response.net = "fail" THEN Returned(EmptyMap)
  ELSE IF raise_for_status(response.status_code) THEN Returned(EmptyMap)
  ELSE IF response.body = "notjson" THEN Returned(EmptyMap)
  ELSE IF response.body = "null" THEN Raised("TypeError")
  ELSE IF response.body = "array" THEN Returned(EmptyMap)
  ELSE IF ~response.has_units THEN Returned(EmptyMap)
  ELSE Returned(units_loop(response.units, EmptyMap))

---------------------------------------------------------------------------
(* The snapshot file DATA_FILE and load_previous_statuses / save_statuses *)

\* States of the file: "absent"; "json" (a JSON object, the dict in .value);
\* "json_null" (the JSON text null); "empty" (zero bytes), "truncated" (a
\* proper prefix of a JSON object) and "notjson" (text that is no JSON);
\* "nonutf8" (bytes that do not decode as text); "unreadable" (open() is
\* refused by the operating system).
File(kind, value) == [kind |-> kind, value |-> value]

Loaded(v) == [raised |-> "", isdict |-> TRUE, value |-> v]

load_previous_statuses(f) ==
  IF f.kind = "absent" THEN Loaded(EmptyMap)
  ELSE IF f.kind = "unreadable"
    THEN [raised |-> "PermissionError", isdict |-> TRUE, value |-> EmptyMap]
  ELSE IF f.kind = "nonutf8"
    THEN [raised |-> "UnicodeDecodeError", isdict |-> TRUE, value |-> EmptyMap]
  ELSE IF f.kind \in {"empty", "truncated", "notjson"} THEN Loaded(EmptyMap)
  ELSE IF f.kind = "json_null"
    THEN [raised |-> "", isdict |-> FALSE, value |-> EmptyMap]
  ELSE Loaded(f.value)

\* save without writing: the file keeps its content.
save_statuses_lost(f, statuses) == f

\* save that keeps the entries of the old snapshot that the new one lacks.
save_statuses_merge(f, statuses) ==
  File("json",
       [u \in DOMAIN statuses \cup (IF f.kind = "json" THEN DOMAIN f.value ELSE {}) |->
          IF u \in DOMAIN statuses THEN statuses[u] ELSE f.value[u]])

\* open(DATA_FILE, "w") truncates the file, json.dump writes the whole dict.
save_statuses(f, statuses) == File("json", statuses)

---------------------------------------------------------------------------
(* main, lines 158-178: the changed-set and the delisted units *)

RECURSIVE diff_loop(_, _, _, _)
diff_loop(keys, current_statuses, previous_statuses, changed) ==
  IF keys = {} THEN changed
  ELSE LET unit == CHOOSE k \in keys : TRUE
           current_data == current_statuses[unit]
           current_status == current_data.status
       IN diff_loop(keys \ {unit}, current_statuses, previous_statuses,
                    IF unit \notin DOMAIN previous_statuses
                    THEN Put(changed, unit, current_data)
                    ELSE IF current_status # previous_statuses[unit].status
                    THEN Put(changed, unit, current_data)
                    ELSE changed)

\* the diff comparing whole entries instead of the status strings.
changed_units_whole_entry(current_statuses, loaded) ==
  Returned([u \in {k \in DOMAIN current_statuses :
                     \/ k \notin DOMAIN loaded.value
                     \/ current_statuses[k] # loaded.value[k]} |->
              current_statuses[u]])

\* the diff that also puts the delisted units into the changed-set.
changed_units_with_delisted(current_statuses, loaded) ==
  LET d == diff_loop(DOMAIN current_statuses, current_statuses, loaded.value, EmptyMap)
  IN Returned([u \in DOMAIN d \cup (DOMAIN loaded.value \ DOMAIN current_statuses) |->
                 IF u \in DOMAIN d THEN d[u] ELSE loaded.value[u]])

\* `unit not in previous_statuses` raises TypeError when json.load returned
\* None; the loop body runs only when current_statuses has a key.
changed_units(current_statuses, loaded) ==
  IF ~loaded.isdict /\ current_statuses # EmptyMap THEN Raised("TypeError")
  ELSE Returned(diff_loop(DOMAIN current_statuses, current_statuses,
                          loaded.value, EmptyMap))

\* the units the second loop reports as no longer listed
delisted(current_statuses, previous_statuses) ==
  {u \in DOMAIN previous_statuses : u \notin DOMAIN current_statuses}

---------------------------------------------------------------------------
(* send_pushbullet_notification *)

\* http is what the provider does with the POST: "200", "non200" or
\* "transport_error" (requests.RequestException).
Note(post_calls, delivery, count) ==
  [post_calls |-> post_calls, delivery |-> delivery, count |-> count]

NotCalled == Note(0, "none", 0)

\* the notifier without the credential check.
send_pushbullet_notification_no_token_check(changed, token, http) ==
  IF changed = EmptyMap THEN Note(0, "noop", 0)
  ELSE Note(1, IF http = "200" THEN "sent" ELSE "failed", Cardinality(DOMAIN changed))

send_pushbullet_notification(changed, token, http) ==
  IF changed = EmptyMap THEN Note(0, "noop", 0)
  ELSE IF ~token THEN Note(0, "skipped", 0)
  ELSE IF http = "transport_error" THEN Note(1, "error", Cardinality(DOMAIN changed))
  ELSE IF http # "200" THEN Note(1, "failed", Cardinality(DOMAIN changed))
  ELSE Note(1, "sent", Cardinality(DOMAIN changed))

---------------------------------------------------------------------------
(* main *)

\* What a run leaves to observe: its inputs, the value of each local once
\* it is assigned, the calls made, and how the run ended ("returned_early"
\* at line 154, "completed" after line 187, "raised" when an exception left
\* main).
RunStart(f, token, response) ==
  [response        |-> response,
   token           |-> token,
   file_before     |-> f,
   file_after      |-> f,
   fetch_raised    |-> "",
   current         |-> EmptyMap,
   load_called     |-> FALSE,
   load_raised     |-> "",
   previous_isdict |-> TRUE,
   previous        |-> EmptyMap,
   diff_raised     |-> "",
   diffed          |-> FALSE,
   changed         |-> EmptyMap,
   notifier_called |-> FALSE,
   post_calls      |-> 0,
   delivery        |-> "none",
   saved           |-> FALSE,
   exit            |-> "init"]

\* main without the early return.
early_return_never(current_statuses) == FALSE

\* `if not current_statuses: ... return`
early_return(current_statuses) == current_statuses = EmptyMap

main(f, token, response, http) ==
  LET start == RunStart(f, token, response)
      fetched == get_unit_statuses(response)
      current_statuses == fetched.value
      loaded == load_previous_statuses(f)
      diff == changed_units(current_statuses, loaded)
      notify == diff.value # EmptyMap
      note == IF notify THEN send_pushbullet_notification(diff.value, token, http)
              ELSE NotCalled
  IN IF fetched.raised # ""
       THEN [start EXCEPT !.fetch_raised = fetched.raised, !.exit = "raised"]
     ELSE IF early_return(current_statuses)
       THEN [start EXCEPT !.exit = "returned_early"]
     ELSE IF loaded.raised # ""
       THEN [start EXCEPT !.current = current_statuses, !.load_called = TRUE,
                          !.load_raised = loaded.raised, !.exit = "raised"]
     ELSE IF diff.raised # ""
       THEN [start EXCEPT !.current = current_statuses, !.load_called = TRUE,
                          !.previous_isdict = loaded.isdict,
                          !.previous = loaded.value,
                          !.diff_raised = diff.raised, !.exit = "raised"]
     ELSE [start EXCEPT !.current = current_statuses, !.load_called = TRUE,
                        !.previous_isdict = loaded.isdict,
                        !.previous = loaded.value,
                        !.diffed = TRUE, !.changed = diff.value,
                        !.notifier_called = notify,
                        !.post_calls = note.post_calls,
                        !.delivery = note.delivery,
                        !.saved = TRUE,
                        !.file_after = save_statuses(f, current_statuses),
                        !.exit = "completed"]

---------------------------------------------------------------------------
(* Inputs *)

U101 == <<"1", "0", "1">>
U102 == <<"1", "0", "2">>
UnitIds == {U101, U102}
PH == <<"P", "H">>

Prices == 1 .. MaxPrice

UnitRecord(has, name, price, beds) ==
  [has |-> has, name |-> name, price |-> price, beds |-> beds, baths |-> 1,
   sqft |-> 500, availableDate |-> "2024-06-01", amenities |-> "", applyUrl |-> ""]

Response(net, status_code, body, has_units, units) ==
  [net |-> net, status_code |-> status_code, body |-> body,
   has_units |-> has_units, units |-> units]

NoResponse == Response("none", 0, "none", FALSE, <<>>)

Failures ==
  { Response("fail", 0, "none", FALSE, <<>>),
    Response("ok", 500, "notjson", FALSE, <<>>),
    Response("ok", 200, "notjson", FALSE, <<>>),
    Response("ok", 200, "null", FALSE, <<>>),
    Response("ok", 200, "object", FALSE, <<>>) }

\* the unit lists of the runs: every listing of the two units, the empty
\* listing, and a listing with no unit that matches UNIT_PATTERN
RunUnitLists ==
  {<<>>, <<UnitRecord(Fields, PH, 1, 1)>>}
    \cup {<<UnitRecord(Fields, u, p, 1)>> : u \in UnitIds, p \in Prices}
    \cup {<<UnitRecord(Fields, U101, p, 1), UnitRecord(Fields, U102, q, 1)>> :
            p \in Prices, q \in Prices}

RunResponses ==
  Failures \cup {Response("ok", 200, "object", TRUE, l) : l \in RunUnitLists}

HttpOutcomes == {"200", "non200", "transport_error"}

\* what the snapshot file can hold when the first run starts
SnapshotEntries(u) ==
  {unit_entry(UnitRecord(Fields, u, p, b)) : p \in Prices, b \in {1, 2}}

Snapshots ==
  UNION {{m \in [S -> UNION {SnapshotEntries(u) : u \in UnitIds}] :
            \A u \in S : m[u] \in SnapshotEntries(u)} : S \in SUBSET UnitIds}

BadKinds == {"absent", "empty", "truncated", "notjson", "nonutf8", "unreadable"}

InitFiles ==
  {File(k, EmptyMap) : k \in BadKinds \cup {"json_null"}}
    \cup {File("json", m) : m \in Snapshots}

---------------------------------------------------------------------------
(* History kept for the properties that span runs *)

NoStatus == <<>>

\* gone[u]: the status u had in the snapshot when a completed run last found
\* it no longer listed, NoStatus once a completed run lists it again.
gone_after(g, r) ==
  IF r.exit # "completed" THEN g
  ELSE [u \in UnitIds |->
          IF u \in DOMAIN r.current THEN NoStatus
          ELSE IF u \in delisted(r.current, r.previous) THEN r.previous[u].status
          ELSE g[u]]

\* the run before: did it complete with a non-empty changed-set that was not
\* delivered, and with which mapping
History(gone_before, prior_undelivered, prior_current) ==
  [gone_before |-> gone_before, prior_undelivered |-> prior_undelivered,
   prior_current |-> prior_current]

Undelivered(r) ==
  /\ r.exit = "completed"
  /\ r.changed # EmptyMap
  /\ r.delivery \in {"failed", "error", "skipped"}

---------------------------------------------------------------------------
(* The runs *)

Init ==
  /\ file \in InitFiles
  /\ gone = [u \in UnitIds |-> NoStatus]
  /\ run = RunStart(file, FALSE, NoResponse) @@ History(gone, FALSE, EmptyMap)

Run ==
  \E response \in RunResponses, token \in BOOLEAN, http \in HttpOutcomes :
    LET r == main(file, token, response, http) IN
      /\ file' = r.file_after
      /\ gone' = gone_after(gone, r)
      /\ run' = r @@ History(gone, Undelivered(run),
                             IF Undelivered(run) THEN run.current ELSE EmptyMap)

Next == Run

Spec == Init /\ [][Next]_vars

---------------------------------------------------------------------------
(* get_unit_statuses alone, on every response of FetchResponses *)

FetchNames ==
  {<<>>, <<"7">>, U101, <<"7", "LF">>, <<"7", "LF", "LF">>, <<"LF">>, <<"7", "A">>, PH}

FetchUnits ==
  {UnitRecord(Fields, n, p, 1) : n \in FetchNames, p \in Prices}
    \cup {UnitRecord(Fields \ {"price"}, n, 0, 1) : n \in FetchNames}
    \cup {UnitRecord(Fields \ {"name"}, <<>>, p, 1) : p \in Prices}
    \cup {UnitRecord(Fields \ {"name", "price"}, <<>>, 0, 1)}

FetchUnitLists == UNION {[1 .. n -> FetchUnits] : n \in 0 .. MaxUnits}

StatusCodes == {200, 304, 500}

FetchResponses ==
  {Response("fail", 0, "none", FALSE, <<>>)}
    \cup {Response("ok", c, b, FALSE, <<>>) :
            c \in StatusCodes, b \in {"notjson", "null", "array", "object"}}
    \cup {Response("ok", c, "object", TRUE, l) : c \in StatusCodes, l \in FetchUnitLists}

InitFetch ==
  /\ file = File("absent", EmptyMap)
  /\ gone = [u \in UnitIds |-> NoStatus]
  /\ \E response \in FetchResponses :
       run = RunStart(file, FALSE, response) @@ History(gone, FALSE, EmptyMap)

FetchCall ==
  /\ run.exit = "init"
  /\ LET fetched == get_unit_statuses(run.response) IN
       run' = [run EXCEPT !.fetch_raised = fetched.raised,
                          !.current = fetched.value,
                          !.exit = "fetched"]
  /\ UNCHANGED <<file, gone>>

NextFetch == FetchCall

SpecFetch == InitFetch /\ [][NextFetch]_vars

---------------------------------------------------------------------------
(* Properties *)

\* the run computed its changed-set (main reached line 175)
Diffed == run.diffed

\* get_unit_statuses returned (did not raise) in the last run
FetchReturned == run.exit # "init" /\ run.fetch_raised = ""

\* C1: the changed-set has exactly the keys of current that are absent from
\* previous or whose status string differs from previous[key].status, and
\* maps each of them to current's entry.
Thm_C1_ChangedSetExact ==
  Diffed =>
    /\ DOMAIN run.changed =
         {u \in DOMAIN run.current :
            \/ u \notin DOMAIN run.previous
            \/ run.current[u].status # run.previous[u].status}
    /\ \A u \in DOMAIN run.changed : run.changed[u] = run.current[u]

\* a run with a status change in the changed-set and, left out of it, a unit
\* whose status is the same although its details differ
Wit_C1_ChangedSetExact ==
  /\ Diffed
  /\ \E u \in DOMAIN run.changed :
       u \in DOMAIN run.previous /\ run.previous[u].status # run.current[u].status
  /\ \E v \in DOMAIN run.current \ DOMAIN run.changed :
       run.previous[v] # run.current[v]

\* C2: a run whose fetch returns the empty mapping returns early: it calls
\* neither save_statuses nor the notifier, and the snapshot file is the one
\* the run found.
Thm_C2_EmptyFetchKeepsSnapshot ==
  (FetchReturned /\ run.current = EmptyMap) =>
    /\ run.exit = "returned_early"
    /\ ~run.saved
    /\ ~run.notifier_called
    /\ run.post_calls = 0
    /\ ~run.load_called
    /\ file = run.file_before

\* an empty fetch (here: the listing has no matching unit) over a snapshot
\* that holds units
Wit_C2_EmptyFetchKeepsSnapshot ==
  /\ FetchReturned /\ run.current = EmptyMap
  /\ run.response.has_units /\ run.response.units # <<>>
  /\ run.exit = "returned_early"
  /\ file.kind = "json" /\ file.value # EmptyMap

\* C3: every run whose fetch returns a non-empty mapping ends with the
\* snapshot file holding exactly that mapping, whatever the file held before.
Claim_C3_SnapshotIsCurrent ==
  (FetchReturned /\ run.current # EmptyMap) => file = File("json", run.current)

\* C4: no POST to the provider is made in a run whose changed-set is empty,
\* nor in a run without PUSHBULLET_TOKEN; the run completes and saves.
Thm_C4_NoPostWithoutChangeOrToken ==
  (Diffed /\ (run.changed = EmptyMap \/ ~run.token)) =>
    /\ run.post_calls = 0
    /\ run.exit = "completed"
    /\ run.saved

\* a run with changes to report and no credential
Wit_C4_NoPostWithoutChangeOrToken ==
  /\ Diffed /\ run.changed # EmptyMap /\ ~run.token
  /\ run.notifier_called /\ run.delivery = "skipped"
  /\ run.post_calls = 0 /\ run.exit = "completed"

\* C5: load_previous_statuses never raises: for an absent, empty, truncated,
\* non-JSON, undecodable or unreadable file it returns the empty mapping and
\* the run goes on.
Claim_C5_LoadNeverRaises ==
  (run.load_called /\ run.file_before.kind \in BadKinds) =>
    /\ run.load_raised = ""
    /\ run.previous = EmptyMap
    /\ run.exit = "completed"

\* the response is one of C6's cases: transport failure, non-2xx status, a
\* body that is no JSON, a JSON body without the top-level "units" key
IsFailureResponse(response) ==
  \/ response.net = "fail"
  \/ response.net = "ok" /\ ~(200 <= response.status_code /\ response.status_code < 300)
  \/ response.net = "ok" /\ response.body = "notjson"
  \/ response.net = "ok" /\ response.body \in {"null", "array", "object"}
       /\ ~response.has_units

\* C6: get_unit_statuses returns the empty mapping and does not raise on a
\* non-2xx response, a transport failure, a body that is not JSON, and a JSON
\* body that lacks the top-level "units" key.
Claim_C6_FetchFailuresReturnEmpty ==
  (run.exit = "fetched" /\ IsFailureResponse(run.response)) =>
    run.fetch_raised = "" /\ run.current = EmptyMap

\* C7: a unit of the previous snapshot that the current fetch lacks is never
\* a key of the changed-set, and a run that differs from its snapshot only by
\* delisted units makes no notification POST.
OnlyDelisted ==
  /\ delisted(run.current, run.previous) # {}
  /\ \A u \in DOMAIN run.current :
       u \in DOMAIN run.previous /\ run.previous[u] = run.current[u]

Thm_C7_DelistedNotNotified ==
  Diffed =>
    /\ \A u \in delisted(run.current, run.previous) : u \notin DOMAIN run.changed
    /\ OnlyDelisted => (run.post_calls = 0 /\ ~run.notifier_called)

\* a completed run, with a credential, whose snapshot had a unit more
Wit_C7_DelistedNotNotified ==
  Diffed /\ OnlyDelisted /\ run.token /\ run.post_calls = 0 /\ run.exit = "completed"

\* a non-empty string of decimal digits
PurelyNumeric(s) == Len(s) >= 1 /\ \A i \in 1 .. Len(s) : s[i] \in Digits

\* C8: the keys of the mapping get_unit_statuses returns are exactly the
\* purely numeric identifiers of the response's unit records; a record with
\* another identifier, or without a name, contributes no entry.
Claim_C8_KeysArePurelyNumericNames ==
  (run.exit = "fetched" /\ run.fetch_raised = "" /\ run.response.net = "ok"
     /\ run.response.status_code = 200 /\ run.response.has_units) =>
    DOMAIN run.current =
      {run.response.units[i].name : i \in
         {j \in 1 .. Len(run.response.units) :
            /\ "name" \in run.response.units[j].has
            /\ PurelyNumeric(run.response.units[j].name)}}

\* C9: when the run before completed with a non-empty changed-set whose
\* notification failed or was skipped, a run that fetches the same mapping
\* completes with an empty changed-set and makes no POST.
Thm_C9_NotifiedAtMostOnce ==
  (run.prior_undelivered /\ FetchReturned /\ run.current = run.prior_current) =>
    /\ run.exit = "completed"
    /\ run.changed = EmptyMap
    /\ run.post_calls = 0
    /\ ~run.notifier_called

\* the second of two such runs, run with a credential
Wit_C9_NotifiedAtMostOnce ==
  /\ run.prior_undelivered /\ FetchReturned /\ run.current = run.prior_current
  /\ run.token /\ run.exit = "completed" /\ run.changed = EmptyMap

\* C10: a unit that a completed run found delisted is, in the run whose fetch
\* lists it again, in the changed-set as a new unit, whatever its status.
Thm_C10_ReappearedUnitIsNew ==
  Diffed =>
    \A u \in DOMAIN run.current \cap UnitIds :
      run.gone_before[u] # NoStatus =>
        /\ u \notin DOMAIN run.previous
        /\ u \in DOMAIN run.changed
        /\ run.changed[u] = run.current[u]

\* a unit back with the very status it had when it was delisted
Wit_C10_ReappearedUnitIsNew ==
  /\ Diffed
  /\ \E u \in DOMAIN run.current \cap UnitIds :
       /\ run.gone_before[u] = run.current[u].status
       /\ u \in DOMAIN run.changed

====
